---- MODULE Spec2Model ----
(***************************************************************************)
(* Report integrity subsystem of the Digital Forensics File Analysis Tool: *)
(* the history store (report-history.json), the dual-token verification    *)
(* scheme, the canonicalization of a rendered report and verifyReportFile. *)
(*                                                                         *)
(* Representation of strings.  A JavaScript string is modelled as a        *)
(* sequence of tokens (TLA+ strings).  A text (a report, a serialization)  *)
(* is a sequence of lines, a line a sequence of tokens; a verification     *)
(* hash string is a sequence of pieces (literal fragments and bcrypt       *)
(* outputs).  Whitespace between tokens is implicit.                       *)
(***************************************************************************)
EXTENDS Integers, Sequences, FiniteSets

(***************************************************************************)
(* Bounds of the model                                                     *)
(***************************************************************************)
\* number of analyze runs (each draws one uuid and appends one record)
MaxRuns == 1
\* number of edits an outside party makes to the store or to the report file
MaxEdits == 1

(***************************************************************************)
(* Generic helpers on sequences                                            *)
(***************************************************************************)
SeqRange(s) == { s[i] : i \in 1..Len(s) }

\* index of the first element of s satisfying membership in S, 0 if none
FirstIn(s, S) ==
  IF \E i \in 1..Len(s) : s[i] \in S
  THEN CHOOSE i \in 1..Len(s) : s[i] \in S /\ \A j \in 1..(i-1) : s[j] \notin S
  ELSE 0

RECURSIVE Flatten(_)
Flatten(text) ==
  IF Len(text) = 0 THEN << >> ELSE Head(text) \o Flatten(Tail(text))

(***************************************************************************)
(* Tokens of report texts                                                  *)
(***************************************************************************)
\* an ANSI colour/formatting escape sequence, as matched by ANSI_REGEX
ESC == "ESC"
LabelId == "Report ID:"
LabelGen == "Generated:"
PLACEHOLDER == "PLACEHOLDER"
\* identifiers of the shape 8-4-4-4-12 hex digits (uuid v4 values)
UUIDs == <<"u1", "u2", "u3", "u4">>
\* the identifier of a record written by an older version of the tool
LegacyId == "u0"
\* a generator that returns one identifier for every report
GenerateReportIdConstant(n) == LegacyId
\* generateReportId(): uuidv4(), the n-th draw
GenerateReportId(n) == UUIDs[n]
\* a well-formed identifier that no record carries
UnknownId == "u9"
UuidShaped == SeqRange(UUIDs) \cup {LegacyId, UnknownId}
\* 36 characters of [0-9a-f-] that are not of the uuid shape
Hex36 == "------------------------------------"
\* toLocaleString() values of successive instants
Times == <<"t1", "t2", "t3", "t4">>

(***************************************************************************)
(* stripAnsiCodes: text.replace(ANSI_REGEX, '')                            *)
(***************************************************************************)
StripLine(line) == SelectSeq(line, LAMBDA t : t # ESC)

\* a stripAnsiCodes that removes nothing
StripNothing(text) == text

StripAnsiCodes(text) == [i \in 1..Len(text) |-> StripLine(text[i])]

(***************************************************************************)
(* Canonicalization:                                                       *)
(*   .replace(/Report ID:.*$/m, 'Report ID: PLACEHOLDER')                  *)
(*   .replace(/Generated:.*$/m, 'Generated: PLACEHOLDER')                  *)
(* A non-global replace rewrites the first match only: the first           *)
(* occurrence of the label anywhere in the text, together with the rest    *)
(* of its line ('.' stops at the line terminator).                         *)
(***************************************************************************)
\* index of the first line that contains the label, 0 if none
FirstLineWith(text, label) ==
  IF \E i \in 1..Len(text) : label \in SeqRange(text[i])
  THEN CHOOSE i \in 1..Len(text) :
         /\ label \in SeqRange(text[i])
         /\ \A j \in 1..(i-1) : label \notin SeqRange(text[j])
  ELSE 0

ReplaceLabelValue(text, label) ==
  LET i == FirstLineWith(text, label) IN
  IF i = 0 THEN text
  ELSE LET k == FirstIn(text[i], {label}) IN
       [text EXCEPT ![i] = SubSeq(text[i], 1, k - 1) \o <<label, PLACEHOLDER>>]

\* a canonicalization that forgets the timestamp line
NormalizeKeepTime(text) == ReplaceLabelValue(text, LabelId)

Normalize(text) ==
  ReplaceLabelValue(ReplaceLabelValue(text, LabelId), LabelGen)

(***************************************************************************)
(* Integrity hasher (hash-utils)                                           *)
(***************************************************************************)
Salts == {"s1", "s2"}
\* the salts bcrypt draws in the n-th run: random 16-byte values, fresh each time
SaltsOfRun == << <<"r1", "r2">>, <<"r3", "r4">>, <<"r5", "r6">> >>
NoDigest == [sha |-> << >>]
\* a literal fragment of a hash string
Lit(s) == [lit |-> s, salt |-> "", pw |-> NoDigest]

\* crypto.createHash('sha256').update(content).digest('hex'); the digest is
\* taken to be collision-free, so it is represented by what it digests
Sha256Hex(content) == [sha |-> content]

\* bcryptjs.hashSync(s, saltRounds): the output embeds the salt it drew
BcryptHashSync(s, salt) == [lit |-> "bcrypt", salt |-> salt, pw |-> s]

\* bcryptjs.compareSync(s, hash): re-hash s with the salt embedded in hash;
\* a hash that is no bcrypt output compares false
BcryptCompareSync(s, hash) ==
  /\ Len(hash) = 1
  /\ hash[1].lit = "bcrypt"
  /\ BcryptHashSync(s, hash[1].salt) = hash[1]

StartsWith(str, prefix) == Len(str) >= 1 /\ str[1] = Lit(prefix)

CreateVerificationHash(content, salt) ==
  <<Lit("dfv1:"), BcryptHashSync(Sha256Hex(content), salt)>>

\* the value undefined where a content string is expected
UndefinedText == << <<"undefined">> >>

\* the body of verifyContent's try block: "throw", or the comparison result;
\* createHash('sha256').update(undefined) throws a TypeError
VerifyContentTry(content, verificationHash) ==
  IF ~StartsWith(verificationHash, "dfv1:") THEN "throw"
  ELSE IF content = UndefinedText THEN "throw"
  ELSE IF BcryptCompareSync(Sha256Hex(content), Tail(verificationHash))
       THEN "true" ELSE "false"

\* verifyContent without its catch clause
VerifyContentNoCatch(content, verificationHash) ==
  LET r == VerifyContentTry(content, verificationHash) IN
  [threw |-> r = "throw", value |-> r = "true"]

\* verifyContent comparing against a hash made with a fixed salt
VerifyContentFixedSalt(content, verificationHash) ==
  [threw |-> FALSE,
   value |-> /\ StartsWith(verificationHash, "dfv1:")
             /\ Tail(verificationHash) = <<BcryptHashSync(Sha256Hex(content), "s1")>>]

\* verifyContent: the outcome of the call, [threw, value]
VerifyContent(content, verificationHash) ==
  LET r == VerifyContentTry(content, verificationHash) IN
  [threw |-> FALSE, value |-> r = "true"]

(***************************************************************************)
(* Analysis results (types/index.ts, AnalysisResult).  An absent           *)
(* (undefined) string field is "", an absent exif_data is has_exif = FALSE.*)
(* exif_data is the sequence of its keys; the key "error" makes it the     *)
(* error object.  file_name is basename(file_path).  The fields size_bytes,*)
(* timestamps and hashes only add body rows that depend on nothing but the *)
(* result itself; the analyzer outputs below leave them absent.            *)
(***************************************************************************)
Result(path, type, hasExif, exif, err) ==
  [file_path |-> path, file_name |-> path, file_type |-> type,
   has_exif |-> hasExif, exif |-> exif, error |-> err, report_id |-> ""]

\* what the run collects for one file: analyzeFile's result, or the error
\* entry pushed when fs.access fails
AnalyzerOutputs ==
  { Result("c.txt", "", FALSE, << >>, "ENOENT"),
    Result("a.jpg", "image", FALSE, << >>, ""),
    Result("b.jpg", "image", TRUE, <<"Image Make", "Comment">>, "") }

\* relevantTags of formatResults
RelevantTags == {"Image Make"}

\* JSON.stringify(results): one line per element, keys in insertion order,
\* undefined fields omitted; report_id, assigned last, is the last key
SerializeResult(r) ==
  <<"file_path", r.file_path, "file_name", r.file_name>>
  \o (IF r.file_type # "" THEN <<"file_type", r.file_type>> ELSE << >>)
  \o (IF r.has_exif THEN <<"exif_data", "{">> \o r.exif \o <<"}">> ELSE << >>)
  \o (IF r.error # "" THEN <<"error", r.error>> ELSE << >>)
  \o (IF r.report_id # "" THEN <<"report_id", r.report_id>> ELSE << >>)

\* the results property of a stored record that has none
NoResults == <<Result("undefined", "", FALSE, << >>, "")>>

\* JSON.stringify(undefined) is undefined
JsonStringify(results) ==
  IF results = NoResults THEN UndefinedText
  ELSE [i \in 1..Len(results) |-> SerializeResult(results[i])]

\* a parser that reads the two leading keys only
ParseResultNoReportId(line) ==
  [file_path |-> line[2], file_name |-> line[4], file_type |-> "",
   has_exif |-> FALSE, exif |-> << >>, error |-> "", report_id |-> ""]

\* JSON.parse of one serialized element: the keys are read in the order they
\* were written, a key that is not there leaves its field absent
ParseResult(line) ==
  LET n == Len(line)
      at(p, key) == p <= n /\ line[p] = key
      hasType == at(5, "file_type")
      p2 == IF hasType THEN 7 ELSE 5
      hasExif == at(p2, "exif_data")
      close == IF hasExif
               THEN CHOOSE k \in (p2 + 2)..n :
                      line[k] = "}" /\ \A j \in (p2 + 2)..(k - 1) : line[j] # "}"
               ELSE p2 - 1
      p3 == close + 1
      hasError == at(p3, "error")
      p4 == IF hasError THEN p3 + 2 ELSE p3
      hasId == at(p4, "report_id")
  IN [file_path |-> line[2], file_name |-> line[4],
      file_type |-> IF hasType THEN line[6] ELSE "",
      has_exif |-> hasExif,
      exif |-> IF hasExif THEN SubSeq(line, p2 + 2, close - 1) ELSE << >>,
      error |-> IF hasError THEN line[p3 + 1] ELSE "",
      report_id |-> IF hasId THEN line[p4 + 1] ELSE ""]

\* JSON.parse of serialized results; a results key that was omitted (its
\* value was undefined) stays absent
JsonParse(text) ==
  IF text = UndefinedText THEN NoResults
  ELSE [i \in 1..Len(text) |-> ParseResult(text[i])]

(***************************************************************************)
(* formatResults(results, viewAll) (core/formatter.ts).  now is the value  *)
(* of new Date().toLocaleString(), color whether chalk emits escape codes. *)
(***************************************************************************)
\* chalk.<style>(text)
Chalk(color, toks) == IF color THEN <<ESC>> \o toks \o <<ESC>> ELSE toks

CreateHeader(color) ==
  << << >>,
     Chalk(color, <<"+----+">>),
     Chalk(color, <<"|">>) \o Chalk(color, <<"DIGITAL FORENSIC ANALYSIS REPORT">>)
       \o Chalk(color, <<"|">>),
     Chalk(color, <<"+----+">>) >>

TableRows(color, keys) == [i \in 1..Len(keys) |-> Chalk(color, <<keys[i]>>)]

\* the metadata section of one result
FormatExif(r, viewAll, color) ==
  IF r.has_exif THEN
    << << >>, Chalk(color, <<"METADATA ANALYSIS:">>) >> \o
    (IF "error" \in SeqRange(r.exif)
     THEN << Chalk(color, <<"Error processing EXIF:">>) >>
     ELSE IF Len(r.exif) > 0 THEN
       LET important == SelectSeq(r.exif, LAMBDA k : k \in RelevantTags)
           others == SelectSeq(r.exif, LAMBDA k : k \notin RelevantTags)
           hasImportantTags == Len(important) > 0
       IN  (IF hasImportantTags
            THEN << Chalk(color, <<"Important Metadata", "Value">>) >>
                 \o TableRows(color, important)
            ELSE << >>)
           \o
           (IF viewAll
            THEN << << >>, Chalk(color, <<"All Metadata Tags", "Value">>) >>
                 \o TableRows(color, IF hasImportantTags THEN others ELSE r.exif)
            ELSE IF Len(others) > 0
                 THEN << << >>, Chalk(color, <<"Other Metadata", "Value">>) >>
                      \o TableRows(color, others)
                 ELSE << >>)
     ELSE << Chalk(color, <<"No metadata tags found.">>) >>)
  ELSE IF r.file_type = "image"
       THEN << << >>, Chalk(color, <<"METADATA ANALYSIS:">>),
               Chalk(color, <<"No metadata present or readable.">>) >>
       ELSE << >>

FormatResult(r, viewAll, color) ==
  << << >>, Chalk(color, <<"--------">>),
     << >>, Chalk(color, <<"FILE ANALYSIS:", r.file_name>>) >> \o
  (IF r.error # ""
   THEN << Chalk(color, <<"Error:", r.error>>), << >> >>
   ELSE
     << Chalk(color, <<"Property", "Value">>),
        Chalk(color, <<"File Name", r.file_name>>) >>
     \o (IF r.file_type # ""
         THEN << << >>, Chalk(color, <<"FILE TYPE ANALYSIS:">>),
                 Chalk(color, <<"MIME Type", r.file_type>>) >>
         ELSE << >>)
     \o FormatExif(r, viewAll, color)
     \o << << >>, Chalk(color, <<"Full Path:", r.file_path>>),
           << >>, Chalk(color, <<"--------">>) >>)

RECURSIVE FormatAll(_, _, _)
FormatAll(results, viewAll, color) ==
  IF Len(results) = 0 THEN << >>
  ELSE FormatResult(Head(results), viewAll, color)
       \o FormatAll(Tail(results), viewAll, color)

FormatResults(results, viewAll, now, color) ==
  CreateHeader(color)
  \o << Chalk(color, <<LabelGen>>) \o Chalk(color, <<now>>) >>
  \o (IF Len(results) > 0 /\ results[1].report_id # ""
      THEN << Chalk(color, <<LabelId>>) \o Chalk(color, <<results[1].report_id>>) >>
      ELSE << >>)
  \o << << >> >>
  \o FormatAll(results, viewAll, color)

(***************************************************************************)
(* The history file db/report-history.json.  kind says what the file       *)
(* holds: "missing" (no file), "empty" (zero bytes), "garbage" (no JSON),  *)
(* "notlist" (JSON that is no array) or "list" (an array of history        *)
(* items, recs).  JSON.parse of "empty" and of "garbage" throws.           *)
(***************************************************************************)
FileOf(kind, recs) == [kind |-> kind, recs |-> recs]

HistoryItem(id, ts, results, hash) ==
  [report_id |-> id,
   timestamp |-> ts,
   analyzed_files |-> [i \in 1..Len(results) |->
                         [file_name |-> results[i].file_name,
                          file_path |-> results[i].file_path]],
   results |-> results,
   verification_hash |-> hash]

NoItem == HistoryItem("", "", << >>, << >>)

\* a stamping that marks the first element only
StampFirstOnly(results, reportId) ==
  [i \in 1..Len(results) |->
     IF i = 1 THEN [results[i] EXCEPT !.report_id = reportId] ELSE results[i]]

\* results.forEach(result => { result.report_id = reportId })
Stamp(results, reportId) ==
  [i \in 1..Len(results) |-> [results[i] EXCEPT !.report_id = reportId]]

\* a combined hash that joins the two hashes without their type tags
CombinedHashNoTags(dataHash, outputHash) == dataHash \o <<Lit("||")>> \o outputHash

\* `data:${dataHash}||output:${outputHash}`
CombinedHash(dataHash, outputHash) ==
  <<Lit("data:")>> \o dataHash \o <<Lit("||"), Lit("output:")>> \o outputHash

\* the verification hash saveReport computes for the stamped results
VerificationHashOf(stamped, now, color, sd, so) ==
  CombinedHash(CreateVerificationHash(JsonStringify(stamped), sd),
               CreateVerificationHash(
                 Normalize(StripAnsiCodes(FormatResults(stamped, FALSE, now, color))),
                 so))

\* what JSON.parse reads back from the file that
\* fs.writeFile(historyFilePath, JSON.stringify(history, null, 2)) wrote; the
\* indentation is white space between tokens
WrittenHistory(history) ==
  [i \in 1..Len(history) |->
     [history[i] EXCEPT !.results = JsonParse(JsonStringify(@))]]

\* the step of saveReport at which the file system fails: ensureDir, the
\* fs.stat inside isFile (which then answers false), fs.readFile, or
\* fs.writeFile before, right after or some way into the truncated file
IoFaults ==
  {"ok", "mkdir", "stat", "read", "write_refused", "write_truncated", "write_partial"}

\* saveReport that puts the new item in front of the history (unshift)
SaveReportUnshift(file, results, reportId, now, color, sd, so, io) ==
  LET stamped == Stamp(results, reportId)
      item == HistoryItem(reportId, now, stamped,
                          VerificationHashOf(stamped, now, color, sd, so))
  IN [settled |-> "resolved", id |-> reportId, warned |-> FALSE,
      file |-> FileOf("list", WrittenHistory(
                        <<item>> \o (IF file.kind = "list" THEN file.recs
                                     ELSE << >>))),
      results |-> stamped, item |-> item]

\* saveReport that starts a new history when it cannot read or parse the
\* log, and writes it
SaveReportFreshOnBadLog(file, results, reportId, now, color, sd, so, io) ==
  LET stamped == Stamp(results, reportId)
      item == HistoryItem(reportId, now, stamped,
                          VerificationHashOf(stamped, now, color, sd, so))
      readable == file.kind = "list" /\ io # "read"
  IN [settled |-> "resolved", id |-> reportId, warned |-> ~readable,
      file |-> FileOf("list", WrittenHistory(
                        (IF readable THEN file.recs ELSE << >>) \o <<item>>)),
      results |-> stamped, item |-> item]

\* saveReport(results): what the call settles to, whether it warned, the
\* history file it leaves, the caller's results, which it stamps in place, and
\* the history item it built.  io names the step at which the file system fails.
SaveReport(file, results, reportId, now, color, sd, so, io) ==
  IF io = "mkdir"
  THEN \* ensureDir throws outside the try block: the promise rejects
       [settled |-> "rejected", id |-> "", warned |-> FALSE,
        file |-> file, results |-> results, item |-> NoItem]
  ELSE
    LET stamped == Stamp(results, reportId)
        item == HistoryItem(reportId, now, stamped,
                            VerificationHashOf(stamped, now, color, sd, so))
        warn(f) == [settled |-> "resolved", id |-> reportId, warned |-> TRUE,
                    file |-> f, results |-> stamped, item |-> item]
    IN
    \* isFile answers false for a missing file and when fs.stat fails
    LET historyExists == file.kind # "missing" /\ io # "stat" IN
    IF historyExists /\ io = "read" THEN warn(file)
    ELSE IF historyExists /\ file.kind \in {"empty", "garbage"} THEN warn(file)
    ELSE IF historyExists /\ file.kind = "notlist" THEN warn(file)
    ELSE IF io = "write_refused" THEN warn(file)
    ELSE IF io = "write_truncated" THEN warn(FileOf("empty", << >>))
    ELSE IF io = "write_partial" THEN warn(FileOf("garbage", << >>))
    ELSE [settled |-> "resolved", id |-> reportId, warned |-> FALSE,
          file |-> FileOf("list", WrittenHistory(
                     (IF historyExists /\ file.kind = "list" THEN file.recs
                      ELSE << >>) \o <<item>>)),
          results |-> stamped, item |-> item]

\* getReportHistory(): [] when the file is missing, unreadable or unparsable;
\* otherwise whatever JSON.parse returns (ok = FALSE when that is no array)
GetReportHistory(file, readFails) ==
  IF file.kind = "missing" \/ readFails \/ file.kind \in {"empty", "garbage"}
  THEN [ok |-> TRUE, recs |-> << >>]
  ELSE IF file.kind = "notlist" THEN [ok |-> FALSE, recs |-> << >>]
  ELSE [ok |-> TRUE, recs |-> file.recs]

\* find that takes the last item of the history whatever its id
FindIndexLast(recs, reportId) == Len(recs)

\* history.find(item => item.report_id === reportId): index of the first
\* match, 0 for undefined
FindIndex(recs, reportId) ==
  IF \E i \in 1..Len(recs) : recs[i].report_id = reportId
  THEN CHOOSE i \in 1..Len(recs) :
         /\ recs[i].report_id = reportId
         /\ \A j \in 1..(i-1) : recs[j].report_id # reportId
  ELSE 0

\* findReportById(reportId): "threw" (history.find on a non-array), "undefined"
\* or "found" with the item
FindReportById(file, readFails, reportId) ==
  LET h == GetReportHistory(file, readFails)
      i == FindIndex(h.recs, reportId)
  IN IF ~h.ok THEN [res |-> "threw", idx |-> 0]
     ELSE IF i = 0 THEN [res |-> "undefined", idx |-> 0]
     ELSE [res |-> "found", idx |-> i]

\* new Date(timestamp).getTime(), as the rank of the instant
GetTime(ts) ==
  IF \E k \in 1..Len(Times) : Times[k] = ts
  THEN CHOOSE k \in 1..Len(Times) : Times[k] = ts
  ELSE 0

\* history.sort((a, b) => getTime(b) - getTime(a)): stable, newest first
RECURSIVE SortNewestFirst(_)
SortNewestFirst(recs) ==
  IF Len(recs) = 0 THEN << >>
  ELSE LET rest == SortNewestFirst(Tail(recs))
           x == Head(recs)
           t(r) == GetTime(r.timestamp)
           \* x goes before the first item of rest that is not newer than it
           k == IF \E j \in 1..Len(rest) : t(rest[j]) <= t(x)
                THEN (CHOOSE j \in 1..Len(rest) :
                        /\ t(rest[j]) <= t(x)
                        /\ \A i \in 1..(j - 1) : t(rest[i]) > t(x)) - 1
                ELSE Len(rest)
       IN SubSeq(rest, 1, k) \o <<x>> \o SubSeq(rest, k + 1, Len(rest))

\* the report ids of the records, in their order
IdsOf(recs) == [i \in 1..Len(recs) |-> recs[i].report_id]

\* formatReportHistory(history): the report ids in the order shown
FormatReportHistory(history) == IdsOf(SortNewestFirst(history))

(***************************************************************************)
(* verifyReportFile                                                        *)
(***************************************************************************)
\* labels matched by /Report ID:/i and by /Report\s*ID:?/i
StrictLabels == {LabelId, "report id:"}
LenientLabels == StrictLabels \cup {"ReportID"}

\* first capture of label, optional white space, identifier in the text
MatchId(text, labels, shapes) ==
  LET f == Flatten(text)
      hit(p) == f[p] \in labels /\ f[p + 1] \in shapes
  IN IF \E p \in 1..(Len(f) - 1) : hit(p)
     THEN f[(CHOOSE p \in 1..(Len(f) - 1) :
                hit(p) /\ \A q \in 1..(p - 1) : ~hit(q)) + 1]
     ELSE ""

\* the strict pattern, then the lenient one; "" when neither matches
ExtractReportId(fileData) ==
  LET strict == MatchId(fileData, StrictLabels, UuidShaped) IN
  IF strict # "" THEN strict
  ELSE MatchId(fileData, LenientLabels, UuidShaped \cup {Hex36})

\* the verification_hash property of a stored record that has none
AbsentHash == <<Lit("undefined")>>

\* verification_hash.split('||')
RECURSIVE Split(_)
Split(str) ==
  LET k == FirstIn(str, {Lit("||")}) IN
  IF k = 0 THEN <<str>>
  ELSE <<SubSeq(str, 1, k - 1)>> \o Split(SubSeq(str, k + 1, Len(str)))

Null(why) ==
  [kind |-> "null", error |-> why, branch |-> "", report_id |-> "",
   is_authentic |-> FALSE, timestamp |-> "", analyzed_files |-> << >>]

\* an exception that leaves the try block of verifyReportFile
Threw(why) == [Null(why) EXCEPT !.kind = "threw"]

\* a verification result that carries nothing of the record
OutcomeWithoutRecord(branch, id, item, verdict) ==
  [kind |-> "outcome", error |-> "", branch |-> branch, report_id |-> id,
   is_authentic |-> verdict, timestamp |-> "", analyzed_files |-> << >>]

Outcome(branch, id, item, verdict) ==
  [kind |-> "outcome", error |-> "", branch |-> branch, report_id |-> id,
   is_authentic |-> verdict, timestamp |-> item.timestamp,
   analyzed_files |-> item.analyzed_files]

\* verification that checks the output hash only
VerifyOutputOnly(dataOk, outputOk) == outputOk

\* const isAuthentic = dataIsAuthentic && outputIsAuthentic
IsAuthentic(dataOk, outputOk) == dataOk /\ outputOk

\* verification that asks of every record that both the results and the
\* report text match its hash string
VerifyAgainstBothHashes(fileData, reportId, item) ==
  LET hashParts == Split(item.verification_hash)
      dataHash == IF Len(hashParts) = 2 THEN Tail(hashParts[1])
                  ELSE item.verification_hash
      outputHash == IF Len(hashParts) = 2 THEN Tail(hashParts[2])
                    ELSE item.verification_hash
      d == VerifyContent(JsonStringify(item.results), dataHash)
      o == VerifyContent(Normalize(fileData), outputHash)
  IN Outcome(IF Len(hashParts) = 2 THEN "dual" ELSE "legacy", reportId, item,
             d.value /\ o.value)

\* the part of verifyReportFile's try block after the history item was
\* found; split on a record without verification_hash throws a TypeError
VerifyAgainst(fileData, reportId, item) ==
  IF item.verification_hash = AbsentHash THEN Threw("exception")
  ELSE
  LET hashParts == Split(item.verification_hash) IN
  IF \/ Len(hashParts) # 2
     \/ ~StartsWith(hashParts[1], "data:")
     \/ ~StartsWith(hashParts[2], "output:")
  THEN LET v == VerifyContent(JsonStringify(item.results), item.verification_hash)
       IN IF v.threw THEN Threw("exception")
          ELSE Outcome("legacy", reportId, item, v.value)
  ELSE LET dataHash == Tail(hashParts[1])
           outputHash == Tail(hashParts[2])
           d == VerifyContent(JsonStringify(item.results), dataHash)
           o == VerifyContent(Normalize(fileData), outputHash)
       IN IF d.threw \/ o.threw THEN Threw("exception")
          ELSE Outcome("dual", reportId, item, IsAuthentic(d.value, o.value))

\* the catch clause of verifyReportFile: log the message, return null
Caught(r) == IF r.kind = "threw" THEN Null(r.error) ELSE r

\* verifyReportFile that looks up whatever the patterns captured, without
\* the test for a missing match
VerifyReportFileNoIdTest(report, file, io) ==
  IF ~report.exists \/ io = "report" THEN Null("access")
  ELSE
    LET fileData == StripAnsiCodes(report.text)
        reportId == ExtractReportId(fileData)
        found == FindReportById(file, io = "history", reportId)
    IN IF found.res = "threw" THEN Null("exception")
       ELSE IF found.res = "undefined" THEN Null("not found in history")
       ELSE Caught(VerifyAgainst(fileData, reportId,
                                 GetReportHistory(file, FALSE).recs[found.idx]))

\* the try block of verifyReportFile(filePath): report is the file at
\* filePath ([exists, text]), io the step at which the file system fails.
\* fs.access and fs.readFile reject, the two throw statements throw, and
\* history.find on a value that is no array throws a TypeError.
VerifyReportFileTry(report, file, io) ==
  IF ~report.exists \/ io = "report" THEN Threw("access")
  ELSE
    LET fileData == StripAnsiCodes(report.text)
        reportId == ExtractReportId(fileData)
    IN IF reportId = "" THEN Threw("No report ID found in the file")
       ELSE LET found == FindReportById(file, io = "history", reportId) IN
            IF found.res = "threw" THEN Threw("exception")
            ELSE IF found.res = "undefined" THEN Threw("not found in history")
            ELSE VerifyAgainst(fileData, reportId,
                               GetReportHistory(file, FALSE).recs[found.idx])

\* verifyReportFile whose try block has no catch clause
VerifyReportFileNoCatch(report, file, io) == VerifyReportFileTry(report, file, io)

\* verifyReportFile(filePath): an outcome, or null after the catch clause
VerifyReportFile(report, file, io) == Caught(VerifyReportFileTry(report, file, io))

(***************************************************************************)
(* What an outside party can do to the report file and to the store        *)
(***************************************************************************)
\* edits of the report outside its identifier line and its timestamp line
BodyEdits == {"ansi", "subst", "prepend_id"}
\* edits of the identifier line or of the timestamp line
HeaderEdits == {"id_unknown", "id_legacy", "drop_idline", "time"}

ReplaceTokens(line, S, new) ==
  [k \in 1..Len(line) |-> IF line[k] \in S THEN new ELSE line[k]]

DropLine(text, i) == SubSeq(text, 1, i - 1) \o SubSeq(text, i + 1, Len(text))

\* the report text orig after the edit e
ApplyEdit(orig, e) ==
  LET n == Len(orig)
      idLine == FirstLineWith(orig, LabelId)
      genLine == FirstLineWith(orig, LabelGen)
  IN CASE e = "ansi" -> [orig EXCEPT ![n] = <<ESC>> \o @]
       [] e = "subst" -> [orig EXCEPT ![n] = ReplaceTokens(@, {"--------"}, "edited")]
       [] e = "prepend_id" -> << <<LabelId, UnknownId>> >> \o orig
       [] e = "id_unknown" /\ idLine > 0 ->
            [orig EXCEPT ![idLine] = ReplaceTokens(@, UuidShaped, UnknownId)]
       [] e = "id_legacy" /\ idLine > 0 ->
            [orig EXCEPT ![idLine] = ReplaceTokens(@, UuidShaped, LegacyId)]
       [] e = "drop_idline" /\ idLine > 0 -> DropLine(orig, idLine)
       [] e = "time" /\ genLine > 0 ->
            [orig EXCEPT ![genLine] = ReplaceTokens(@, SeqRange(Times) \cup {"t0"}, "t9")]
       [] OTHER -> orig

\* "rename" changes a stored value, "drop" deletes the results property
ResultEdits == {"rename", "drop"}

EditedResults(results, e) ==
  IF e = "rename" /\ Len(results) > 0
  THEN [results EXCEPT ![1].file_name = "evil.jpg"]
  ELSE IF e = "drop" THEN NoResults
  ELSE << >>

\* stored hash strings of an unexpected shape, and no hash string at all
MalformedHashes ==
  { AbsentHash,
    <<Lit("junk")>>,
    <<Lit("data:"), Lit("junk"), Lit("||"), Lit("output:"), Lit("junk")>>,
    <<Lit("data:"), Lit("dfv1:"), Lit("junk"), Lit("||"), Lit("output:"),
      Lit("dfv1:"), Lit("junk"), Lit("||"), Lit("junk")>> }

(***************************************************************************)
(* State                                                                   *)
(***************************************************************************)
VARIABLES
  dirExists,     \* whether the storage directory db/ exists
  historyFile,   \* db/report-history.json
  reportFile,    \* the report file the investigator holds and hands to --check
  clock,         \* index into Times of the current instant
  runs,          \* analyze runs so far
  edits,         \* outside edits so far
  lastSave,      \* what the last run's saveReport settled to and built
  lastCheck,     \* what the last verifyReportFile returned
  lastLog,       \* what the last history view showed
  lastRun,       \* how the analyze run just made went
  op,            \* the last operation
  fin,           \* arguments of a call of a pure function under test
  fout,          \* its result
  savers         \* the saveReport calls in flight, each between two awaits

vars == <<dirExists, historyFile, reportFile, clock, runs, edits, lastSave,
          lastCheck, lastLog, lastRun, op, fin, fout, savers>>

\* the result slot of a pure-function call: a verdict and up to two texts
NoVerdict == [threw |-> FALSE, value |-> FALSE]
FnOut(verdict, first, second) ==
  [done |-> TRUE, verdict |-> verdict, first |-> first, second |-> second]
NoOut == [done |-> FALSE, verdict |-> NoVerdict, first |-> << >>, second |-> << >>]

\* no run yet
NoSave ==
  [settled |-> "none", id |-> "", warned |-> FALSE, item |-> NoItem]

\* no analyze run just made
NoRun ==
  [io |-> "ok", exit |-> 0, delivered |-> FALSE, viewAll |-> FALSE,
   results |-> << >>, after |-> << >>]

\* no history view yet
NoLog ==
  [shown |-> FALSE, exit |-> 0, readFails |-> FALSE, returned |-> << >>,
   view |-> << >>]

\* the two saveReport calls of the overlap scenario
Savers == {1, 2}

\* a saveReport call: pc is the await it stands at ("idle" before the call,
\* "stat", "read", "write", then "done" or "warned"), results the caller's
\* array, item the history item it built, history the array it loaded,
\* overlapped whether it loaded the log while the other call had loaded it
\* and not yet written it back
Saver(pc, results, item, history, overlapped) ==
  [pc |-> pc, results |-> results, item |-> item, history |-> history,
   overlapped |-> overlapped]

\* no saveReport call in flight
NoSavers == [p \in Savers |-> Saver("idle", << >>, NoItem, << >>, FALSE)]

NoReport == [exists |-> FALSE, text |-> << >>, orig |-> << >>, edit |-> "none"]
ReportOf(text) == [exists |-> TRUE, text |-> text, orig |-> text, edit |-> "none"]

\* a record written before the dual-token scheme, and the report of it
LegacyResults == Stamp(<<Result("a.jpg", "image", FALSE, << >>, "")>>, LegacyId)
LegacyItem ==
  HistoryItem(LegacyId, "t0", LegacyResults,
              CreateVerificationHash(JsonStringify(LegacyResults), "s1"))
LegacyReport == StripAnsiCodes(FormatResults(LegacyResults, FALSE, "t0", FALSE))

InitStores ==
  { [dir |-> FALSE, file |-> FileOf("missing", << >>), report |-> NoReport],
    [dir |-> TRUE, file |-> FileOf("empty", << >>), report |-> NoReport],
    [dir |-> TRUE, file |-> FileOf("notlist", << >>), report |-> NoReport],
    [dir |-> TRUE, file |-> FileOf("list", << >>), report |-> NoReport],
    [dir |-> TRUE, file |-> FileOf("list", <<LegacyItem>>),
     report |-> ReportOf(LegacyReport)] }

StoreInit ==
  /\ \E s \in InitStores :
       /\ dirExists = s.dir
       /\ historyFile = s.file
       /\ reportFile = s.report
  /\ clock = 1
  /\ runs = 0
  /\ edits = 0
  /\ lastSave = NoSave
  /\ lastCheck = Null("none")
  /\ lastLog = NoLog
  /\ lastRun = NoRun
  /\ op = "init"

Init ==
  /\ StoreInit
  /\ fin = "none"
  /\ fout = NoOut
  /\ savers = NoSavers

(***************************************************************************)
(* CommandHandler.run with --files: collect the results, saveReport, then  *)
(* formatResults(allResults, options.viewAll), written with --output as    *)
(* rendered.  The text export writes the same text with the escape codes   *)
(* stripped, which is the text rendered with color = FALSE.                *)
(***************************************************************************)
Run(allResults, color, io) ==
  /\ runs < MaxRuns
  /\ io \in {"stat", "read"} => historyFile.kind # "missing"
  /\ io \in {"write_refused", "write_truncated", "write_partial"}
       => historyFile.kind \in {"missing", "list"}
  /\ \E sv \in { SaveReport(historyFile, allResults, GenerateReportId(runs + 1),
                            Times[clock],
                            color, SaltsOfRun[runs + 1][1], SaltsOfRun[runs + 1][2],
                            io) } :
     \E viewAll \in BOOLEAN :
       /\ historyFile' = sv.file
       /\ dirExists' = (dirExists \/ sv.settled = "resolved")
       /\ lastSave' = [settled |-> sv.settled, id |-> sv.id, warned |-> sv.warned,
                       item |-> sv.item]
       /\ lastRun' = [io |-> io,
                      \* run's catch block ends the process with status 1
                      exit |-> IF sv.settled = "rejected" THEN 1 ELSE 0,
                      delivered |-> sv.settled # "rejected",
                      viewAll |-> viewAll,
                      \* allResults as collected, before saveReport stamps them
                      results |-> allResults,
                      \* the same array once saveReport has settled
                      after |-> sv.results]
       /\ reportFile' =
            IF sv.settled = "rejected"
            THEN \* run's catch block: process.exit(1), nothing is rendered
                 reportFile
            ELSE \* rendered once the save has settled, at a later instant
                 ReportOf(FormatResults(sv.results, viewAll, Times[clock + 1], color))
  /\ runs' = runs + 1
  /\ clock' = clock + 1
  /\ op' = "run"
  /\ lastCheck' = Null("none")
  /\ lastLog' = NoLog
  /\ UNCHANGED <<edits, fin, fout, savers>>

\* CommandHandler.run without --check and --log that returns before any
\* file is analyzed: "nofiles" when --files is missing or empty (a message,
\* then return), "noscript" when analyzer.py is not found (process.exit(1))
RunWithoutAnalysis(why) ==
  /\ lastRun' = [NoRun EXCEPT !.exit = IF why = "noscript" THEN 1 ELSE 0]
  /\ lastCheck' = Null("none")
  /\ lastLog' = NoLog
  /\ op' = why
  /\ UNCHANGED <<dirExists, historyFile, reportFile, clock, runs, edits, lastSave,
                 fin, fout, savers>>

\* CommandHandler.run with --check: verifyReportFile on the report file
Check(io) ==
  /\ lastCheck' = VerifyReportFile(reportFile, historyFile, io)
  /\ lastLog' = NoLog
  /\ lastRun' = NoRun
  /\ op' = IF io = "ok" THEN "check" ELSE "check_fault"
  /\ UNCHANGED <<dirExists, historyFile, reportFile, clock, runs, edits, lastSave,
                 fin, fout, savers>>

\* CommandHandler.run with --log: getReportHistory, then formatReportHistory,
\* which sorts the array it was given and writes nothing.  When the file
\* holds JSON that is no array, history.sort throws and run's catch block
\* ends the process with status 1.
Log(readFails) ==
  /\ readFails => historyFile.kind # "missing"
  /\ LET h == GetReportHistory(historyFile, readFails) IN
       lastLog' = IF h.ok
                  THEN [shown |-> TRUE, exit |-> 0, readFails |-> readFails,
                        returned |-> IdsOf(h.recs),
                        view |-> FormatReportHistory(h.recs)]
                  ELSE [shown |-> FALSE, exit |-> 1, readFails |-> readFails,
                        returned |-> << >>, view |-> << >>]
  /\ lastCheck' = Null("none")
  /\ lastRun' = NoRun
  /\ op' = "log"
  /\ UNCHANGED <<dirExists, historyFile, reportFile, clock, runs, edits, lastSave,
                 fin, fout, savers>>

\* somebody edits the report file
EditReport(e) ==
  /\ edits < MaxEdits
  /\ reportFile.exists
  /\ reportFile' = [reportFile EXCEPT !.text = ApplyEdit(reportFile.orig, e),
                                      !.edit = e]
  /\ reportFile' # reportFile
  /\ edits' = edits + 1
  /\ op' = "edit"
  /\ lastCheck' = Null("none")
  /\ lastLog' = NoLog
  /\ lastRun' = NoRun
  /\ UNCHANGED <<dirExists, historyFile, clock, runs, lastSave, fin, fout, savers>>

\* somebody edits the results of the i-th stored record
EditStoredResults(i, e) ==
  /\ edits < MaxEdits
  /\ historyFile.kind = "list"
  /\ i \in 1..Len(historyFile.recs)
  /\ historyFile' = [historyFile EXCEPT
                       !.recs[i].results = EditedResults(@, e)]
  /\ historyFile' # historyFile
  /\ edits' = edits + 1
  /\ op' = "edit"
  /\ lastCheck' = Null("none")
  /\ lastLog' = NoLog
  /\ lastRun' = NoRun
  /\ UNCHANGED <<dirExists, reportFile, clock, runs, lastSave, fin, fout, savers>>

\* somebody replaces the hash string of the i-th stored record
EditStoredHash(i, h) ==
  /\ edits < MaxEdits
  /\ historyFile.kind = "list"
  /\ i \in 1..Len(historyFile.recs)
  /\ historyFile' = [historyFile EXCEPT !.recs[i].verification_hash = h]
  /\ historyFile' # historyFile
  /\ edits' = edits + 1
  /\ op' = "edit"
  /\ lastCheck' = Null("none")
  /\ lastLog' = NoLog
  /\ lastRun' = NoRun
  /\ UNCHANGED <<dirExists, reportFile, clock, runs, lastSave, fin, fout, savers>>

\* what a run collects: one entry per path of --files, in their order, the
\* entries of inaccessible files among them
ResultSets ==
  { << Result("c.txt", "", FALSE, << >>, "ENOENT") >>,
    << Result("a.jpg", "image", FALSE, << >>, "") >>,
    << Result("b.jpg", "image", TRUE, <<"Image Make", "Comment">>, ""),
       Result("c.txt", "", FALSE, << >>, "ENOENT") >> }

Next ==
  \/ \E rs \in ResultSets, color \in BOOLEAN, io \in IoFaults : Run(rs, color, io)
  \/ \E why \in {"nofiles", "noscript"} : RunWithoutAnalysis(why)
  \/ \E io \in {"ok", "report", "history"} : Check(io)
  \/ \E readFails \in BOOLEAN : Log(readFails)
  \/ \E e \in BodyEdits \cup HeaderEdits : EditReport(e)
  \/ \E i \in 1..(MaxRuns + 1), e \in ResultEdits : EditStoredResults(i, e)
  \/ \E i \in 1..(MaxRuns + 1), h \in MalformedHashes : EditStoredHash(i, h)

Spec == Init /\ [][Next]_vars

(***************************************************************************)
(* Calls of the pure functions on inputs drawn from bounded sets           *)
(***************************************************************************)
\* longest content (in lines) handed to the hasher
MaxContentLines == 2
\* longest text (in lines) and longest line (in tokens) handed to the canonicalizer
MaxTextLines == 2
MaxLineLen == 2

RECURSIVE SeqsUpTo(_, _)
SeqsUpTo(S, n) ==
  IF n = 0 THEN { << >> }
  ELSE LET shorter == SeqsUpTo(S, n - 1) IN
       shorter \cup { Append(q, x) : q \in shorter, x \in S }

Contents == SeqsUpTo({ <<"a">>, <<"b", "c">> }, MaxContentLines)

\* hash strings as they may be handed to verifyContent
HashStrings ==
  { << >>, <<Lit("junk")>>, <<Lit("data:"), Lit("dfv1:"), Lit("junk")>>,
    <<Lit("dfv1:"), Lit("junk")>>, <<Lit("dfv1:")>> }
  \cup { <<BcryptHashSync(Sha256Hex(c), "s1")>> : c \in Contents }
  \cup { CreateVerificationHash(c, "s2") : c \in Contents }

CanonTexts == SeqsUpTo(SeqsUpTo({LabelId, LabelGen, "x"}, MaxLineLen), MaxTextLines)

FnInputs ==
  [kind : {"hash"}, c1 : Contents, c2 : Contents, salt : Salts]
  \cup [kind : {"verify"}, content : Contents, hash : HashStrings]
  \cup [kind : {"text"}, x : CanonTexts]
  \cup [kind : {"renders"}, results : ResultSets, viewAll : BOOLEAN,
        idA : {"u1", "u2"}, idB : {"u1", "u2"}, nowA : {"t1", "t2"},
        nowB : {"t1", "t2"}, colorA : BOOLEAN, colorB : BOOLEAN]
  \cup [kind : {"format"}, results : ResultSets \cup { << >> },
        id : {"", "u1"}, viewAll : BOOLEAN, color : BOOLEAN]

FnInit ==
  /\ dirExists = FALSE
  /\ historyFile = FileOf("missing", << >>)
  /\ reportFile = NoReport
  /\ clock = 1
  /\ runs = 0
  /\ edits = 0
  /\ lastSave = NoSave
  /\ lastCheck = Null("none")
  /\ lastLog = NoLog
  /\ lastRun = NoRun
  /\ op = "init"
  /\ fin \in FnInputs
  /\ fout = NoOut
  /\ savers = NoSavers

fnFrame == <<dirExists, historyFile, reportFile, clock, runs, edits, lastSave,
             lastCheck, lastLog, lastRun, op, fin, savers>>

\* verifyContent(c1, createVerificationHash(c2))
CallHash ==
  /\ ~fout.done /\ fin.kind = "hash"
  /\ fout' = FnOut(VerifyContent(fin.c1, CreateVerificationHash(fin.c2, fin.salt)),
                  << >>, << >>)
  /\ UNCHANGED fnFrame

\* verifyContent(content, hash)
CallVerify ==
  /\ ~fout.done /\ fin.kind = "verify"
  /\ fout' = FnOut(VerifyContent(fin.content, fin.hash), << >>, << >>)
  /\ UNCHANGED fnFrame

\* the canonicalization applied once and twice
CallNormalize ==
  /\ ~fout.done /\ fin.kind = "text"
  /\ fout' = FnOut(NoVerdict, Normalize(fin.x), Normalize(Normalize(fin.x)))
  /\ UNCHANGED fnFrame

\* two renders of the same results, each stripped and canonicalized
CallRenders ==
  /\ ~fout.done /\ fin.kind = "renders"
  /\ fout' = FnOut(NoVerdict,
                    Normalize(StripAnsiCodes(
                      FormatResults(Stamp(fin.results, fin.idA), fin.viewAll,
                                    fin.nowA, fin.colorA))),
                    Normalize(StripAnsiCodes(
                      FormatResults(Stamp(fin.results, fin.idB), fin.viewAll,
                                    fin.nowB, fin.colorB))))
  /\ UNCHANGED fnFrame

\* formatResults(results, viewAll) of results that carry the report id
\* fin.id, or none when it is ""
CallFormat ==
  /\ ~fout.done /\ fin.kind = "format"
  /\ fout' = FnOut(NoVerdict,
                    FormatResults(Stamp(fin.results, fin.id), fin.viewAll, "t1",
                                  fin.color),
                    << >>)
  /\ UNCHANGED fnFrame

FnNext == CallHash \/ CallVerify \/ CallNormalize \/ CallRenders \/ CallFormat

FnSpec == FnInit /\ [][FnNext]_vars

(***************************************************************************)
(* Two saveReport calls on one store.  saveReport is an async function: it *)
(* runs from one await to the next without interruption and may be         *)
(* suspended at each await (ensureDir, isFile, fs.readFile, fs.writeFile)  *)
(* while the other call runs.  Nothing serializes the two calls.           *)
(***************************************************************************)
RaceStores ==
  { [dir |-> FALSE, file |-> FileOf("missing", << >>)],
    [dir |-> TRUE, file |-> FileOf("empty", << >>)],
    [dir |-> TRUE, file |-> FileOf("list", << >>)],
    [dir |-> TRUE, file |-> FileOf("list", <<LegacyItem>>)] }

RaceInit ==
  /\ \E s \in RaceStores : dirExists = s.dir /\ historyFile = s.file
  /\ reportFile = NoReport
  /\ clock = 1
  /\ runs = 0
  /\ edits = 0
  /\ lastSave = NoSave
  /\ lastCheck = Null("none")
  /\ lastLog = NoLog
  /\ lastRun = NoRun
  /\ op = "init"
  /\ fin = "none"
  /\ fout = NoOut
  /\ savers \in [Savers -> { Saver("idle", rs, NoItem, << >>, FALSE) :
                               rs \in ResultSets }]

raceFrame == <<reportFile, edits, lastSave, lastCheck, lastLog, lastRun, op, fin, fout>>

\* whether a call other than p has loaded the log and not yet written it back
OtherLoaded(p) == \E q \in Savers \ {p} : savers[q].pc = "write"

\* the call starts: ensureDir, then the id, the stamping, the two hashes and
\* the history item, up to the await of isFile
SaveBegin(p) ==
  /\ savers[p].pc = "idle"
  /\ LET reportId == GenerateReportId(runs + 1)
         stamped == Stamp(savers[p].results, reportId)
         item == HistoryItem(reportId, Times[clock], stamped,
                             VerificationHashOf(stamped, Times[clock], FALSE,
                                                SaltsOfRun[runs + 1][1],
                                                SaltsOfRun[runs + 1][2]))
     IN savers' = [savers EXCEPT ![p] = Saver("stat", stamped, item, << >>, FALSE)]
  /\ dirExists' = TRUE
  /\ runs' = runs + 1
  /\ clock' = clock + 1
  /\ UNCHANGED <<historyFile, raceFrame>>

\* isFile answers: without a log file the history is [], the item is pushed
\* and fs.writeFile is awaited; with one, fs.readFile is awaited
SaveStat(p) ==
  /\ savers[p].pc = "stat"
  /\ savers' = [savers EXCEPT ![p] =
                  IF historyFile.kind = "missing"
                  THEN [@ EXCEPT !.pc = "write", !.history = << >>,
                                 !.overlapped = OtherLoaded(p)]
                  ELSE [@ EXCEPT !.pc = "read"]]
  /\ UNCHANGED <<dirExists, historyFile, clock, runs, raceFrame>>

\* fs.readFile answers: JSON.parse, history.push, then fs.writeFile is
\* awaited; when parse or push throws, the catch clause warns and returns
SaveRead(p) ==
  /\ savers[p].pc = "read"
  /\ savers' = [savers EXCEPT ![p] =
                  IF historyFile.kind = "list"
                  THEN [@ EXCEPT !.pc = "write", !.history = historyFile.recs,
                                 !.overlapped = OtherLoaded(p)]
                  ELSE [@ EXCEPT !.pc = "warned"]]
  /\ UNCHANGED <<dirExists, historyFile, clock, runs, raceFrame>>

\* fs.writeFile completes: the file holds the loaded history and the new item
SaveWrite(p) ==
  /\ savers[p].pc = "write"
  /\ historyFile' = FileOf("list", WrittenHistory(
                                     savers[p].history \o <<savers[p].item>>))
  /\ savers' = [savers EXCEPT ![p].pc = "done"]
  /\ UNCHANGED <<dirExists, clock, runs, raceFrame>>

RaceNext ==
  \E p \in Savers : SaveBegin(p) \/ SaveStat(p) \/ SaveRead(p) \/ SaveWrite(p)

RaceSpec == RaceInit /\ [][RaceNext]_vars

(***************************************************************************)
(* Properties                                                              *)
(***************************************************************************)
\* the store holds, unchanged, the record that the last run saved
StoredAsSaved ==
  /\ lastSave.settled = "resolved"
  /\ ~lastSave.warned
  /\ historyFile.kind = "list"
  /\ \E i \in 1..Len(historyFile.recs) : historyFile.recs[i] = lastSave.item

\* the record that findReportById returns for the id of the last run
FoundOfLastSave == FindReportById(historyFile, FALSE, lastSave.id)

\* the record that the id extracted from the report file selects
IdInReport == ExtractReportId(StripAnsiCodes(reportFile.text))
FoundOfReport == FindReportById(historyFile, FALSE, IdInReport)
RecordOfReport == GetReportHistory(historyFile, FALSE).recs[FoundOfReport.idx]

\* C1: a report saved by saveReport and rendered by the same run verifies as
\* authentic when neither the report file nor the stored record was modified.
C1_UnmodifiedReportIsAuthentic ==
  (op = "check" /\ StoredAsSaved /\ reportFile.edit = "none")
    => (lastCheck.kind = "outcome" /\ lastCheck.is_authentic)

\* C2: after saveReport has returned an id, findReportById(id) returns a
\* record with that id.
C2_SavedIsFound ==
  (op = "run" /\ lastSave.settled = "resolved")
    => /\ FoundOfLastSave.res = "found"
       /\ historyFile.recs[FoundOfLastSave.idx].report_id = lastSave.id

\* C3: when the stored results of a report's record were changed so that
\* their serialization differs, while the stored hash string and the report
\* file are untouched, verification of the report returns is_authentic = false.
C3_ChangedResultsNotAuthentic ==
  (/\ op = "check"
   /\ lastSave.settled = "resolved" /\ ~lastSave.warned
   /\ reportFile.edit = "none"
   /\ FoundOfLastSave.res = "found"
   /\ LET rec == historyFile.recs[FoundOfLastSave.idx] IN
        /\ rec.verification_hash = lastSave.item.verification_hash
        /\ JsonStringify(rec.results) # JsonStringify(lastSave.item.results))
    => (lastCheck.kind = "outcome" /\ ~lastCheck.is_authentic)

C3_Witness ==
  /\ op = "check" /\ lastSave.settled = "resolved" /\ ~lastSave.warned
  /\ reportFile.edit = "none"
  /\ FoundOfLastSave.res = "found"
  /\ historyFile.recs[FoundOfLastSave.idx].verification_hash
       = lastSave.item.verification_hash
  /\ historyFile.recs[FoundOfLastSave.idx].results[1].file_name = "evil.jpg"
  /\ lastCheck.kind = "outcome" /\ ~lastCheck.is_authentic

\* C4: any edit of the report file outside its identifier line and its
\* timestamp line makes verification return is_authentic = false.
C4_BodyEditNotAuthentic ==
  (/\ op = "check" /\ StoredAsSaved
   /\ reportFile.edit \in BodyEdits
   /\ reportFile.text # reportFile.orig)
    => (lastCheck.kind = "outcome" /\ ~lastCheck.is_authentic)

\* C5: verifyContent(c1, createVerificationHash(c2)) is true exactly when
\* c1 = c2, whatever salt the hash was made with.
C5_VerifyIffEqualContent ==
  (fout.done /\ fin.kind = "hash")
    => /\ ~fout.verdict.threw
       /\ fout.verdict.value <=> (fin.c1 = fin.c2)

C5_Witness ==
  /\ fout.done /\ fin.kind = "hash"
  /\ fin.c1 = fin.c2 /\ fin.salt = "s2" /\ fout.verdict.value

\* C6: verifyContent returns false, and does not throw, for every hash
\* string that does not start with the version prefix.
C6_NoPrefixIsFalse ==
  (fout.done /\ fin.kind = "verify" /\ ~StartsWith(fin.hash, "dfv1:"))
    => (~fout.verdict.threw /\ ~fout.verdict.value)

C6_Witness ==
  /\ fout.done /\ fin.kind = "verify"
  /\ fin.hash = <<BcryptHashSync(Sha256Hex(fin.content), "s1")>>
  /\ ~fout.verdict.threw /\ ~fout.verdict.value

\* the one-part hash string that createVerificationHash gives for the content
IsLegacyHashOf(hash, content) ==
  /\ Len(Split(hash)) = 1
  /\ StartsWith(hash, "dfv1:")
  /\ VerifyContent(content, hash).value

\* C7: when the record that a report file's id selects holds a single
\* untagged hash string, which is the hash of the record's results,
\* verification returns is_authentic = true whatever the rest of the file says.
C7_LegacyRecordIsAuthentic ==
  (/\ op = "check" /\ reportFile.exists
   /\ IdInReport # ""
   /\ FoundOfReport.res = "found"
   /\ IsLegacyHashOf(RecordOfReport.verification_hash,
                     JsonStringify(RecordOfReport.results)))
    => (lastCheck.kind = "outcome" /\ lastCheck.is_authentic)

C7_Witness ==
  /\ op = "check" /\ reportFile.exists
  /\ reportFile.edit = "subst" /\ reportFile.text # reportFile.orig
  /\ IdInReport = LegacyId
  /\ FoundOfReport.res = "found"
  /\ IsLegacyHashOf(RecordOfReport.verification_hash,
                    JsonStringify(RecordOfReport.results))
  /\ lastCheck.kind = "outcome" /\ lastCheck.branch = "legacy"
  /\ lastCheck.is_authentic

\* a hash string of the shape `data:dfv1:<bcrypt>||output:dfv1:<bcrypt>`
IsTaggedPair(hash) ==
  LET parts == Split(hash) IN
  /\ Len(parts) = 2
  /\ Len(parts[1]) = 3 /\ parts[1][1] = Lit("data:") /\ parts[1][2] = Lit("dfv1:")
  /\ parts[1][3].lit = "bcrypt"
  /\ Len(parts[2]) = 3 /\ parts[2][1] = Lit("output:") /\ parts[2][2] = Lit("dfv1:")
  /\ parts[2][3].lit = "bcrypt"

\* a hash string of the shape `dfv1:<bcrypt>`
IsBareHash(hash) ==
  Len(hash) = 2 /\ hash[1] = Lit("dfv1:") /\ hash[2].lit = "bcrypt"

\* C8: when the record that a report file's id selects holds a hash string
\* that is neither a tagged pair nor a single untagged hash, verification
\* fails (returns null) and gives no verdict.
C8_MalformedHashFails ==
  (/\ op = "check" /\ reportFile.exists
   /\ IdInReport # ""
   /\ FoundOfReport.res = "found"
   /\ ~IsTaggedPair(RecordOfReport.verification_hash)
   /\ ~IsBareHash(RecordOfReport.verification_hash))
    => lastCheck.kind = "null"

\* C9: the canonicalization is idempotent: applied to its own result it
\* changes nothing.
C9_NormalizeIdempotent ==
  (fout.done /\ fin.kind = "text") => fout.second = fout.first

\* C10: two renders of results that differ only in the report id, made at
\* different times with the same verbosity, have the same canonical text once
\* the escape sequences are stripped.
C10_RendersAgree ==
  (fout.done /\ fin.kind = "renders") => fout.first = fout.second

C10_Witness ==
  /\ fout.done /\ fin.kind = "renders"
  /\ fin.idA # fin.idB /\ fin.nowA # fin.nowB /\ fin.colorA # fin.colorB
  /\ fin.results[1].has_exif /\ fin.viewAll
  /\ fout.first = fout.second
  /\ FirstLineWith(fout.first, PLACEHOLDER) > 0

\* the lines that formatResults writes for a label: the label opens the line
IntroducedBy(line, label) == Len(line) >= 1 /\ line[1] = label

\* the first line of the text that the label opens, 0 when there is none
HeaderLine(text, label) ==
  IF \E i \in 1..Len(text) : IntroducedBy(text[i], label)
  THEN CHOOSE i \in 1..Len(text) :
         /\ IntroducedBy(text[i], label)
         /\ \A j \in 1..(i - 1) : ~IntroducedBy(text[j], label)
  ELSE 0

\* C11: the canonicalization keeps the number of lines and changes no line
\* other than the line that introduces the report id and the line that
\* introduces the generation time; a text without these lines is unchanged.
C11_NormalizeFrame ==
  (fout.done /\ fin.kind = "text")
    => /\ Len(fout.first) = Len(fin.x)
       /\ \A i \in 1..Len(fin.x) :
            (i # HeaderLine(fin.x, LabelId) /\ i # HeaderLine(fin.x, LabelGen))
              => fout.first[i] = fin.x[i]

\* the operations of the program, as opposed to edits by an outside party
ProgramOps == {"run", "nofiles", "noscript", "check", "check_fault", "log"}

\* the records of the persisted log: none unless the file holds an array
RecordsIn(file) == IF file.kind = "list" THEN file.recs ELSE << >>

\* C12: no operation of the program removes, changes or reorders a record of
\* the persisted log; a save adds at most one record, at the end.
C12_RecordsKept ==
  [][op' \in ProgramOps =>
       LET old == RecordsIn(historyFile)
           new == RecordsIn(historyFile')
       IN /\ Len(new) >= Len(old)
          /\ SubSeq(new, 1, Len(old)) = old
          /\ Len(new) <= Len(old) + 1
          /\ op' # "run" => new = old]_vars

\* C13: no two records of the persisted log have the same report_id.
C13_IdsUnique ==
  \A i, j \in 1..Len(RecordsIn(historyFile)) :
    i # j => RecordsIn(historyFile)[i].report_id # RecordsIn(historyFile)[j].report_id

C13_Witness ==
  /\ op = "run" /\ lastSave.settled = "resolved" /\ ~lastSave.warned
  /\ Len(RecordsIn(historyFile)) >= 2
  /\ RecordsIn(historyFile)[Len(RecordsIn(historyFile))].report_id = lastSave.id

\* C14: a save that meets no I/O failure while the log file is missing or
\* empty leaves a log that holds exactly the new record, and the storage
\* directory exists afterwards.
C14_MissingOrEmptyLogIsEmptyHistory ==
  [][(/\ op' = "run" /\ lastRun'.io = "ok"
      /\ historyFile.kind \in {"missing", "empty"})
       => (/\ historyFile' = FileOf("list", <<lastSave'.item>>)
           /\ dirExists')]_vars

\* C15: when an I/O step of saveReport fails (creating the directory, reading
\* the log, writing it), the call still resolves to the generated id and has
\* logged the warning.
C15_FailedSaveResolves ==
  (op = "run" /\ lastRun.io # "ok")
    => (lastSave.settled = "resolved" /\ lastSave.id # "" /\ lastSave.warned)

\* C16: when an I/O step of the history subsystem fails during an analyze
\* run, the report is still rendered and delivered and the process does not
\* end with an error status.
C16_HistoryFailureNotFatal ==
  (op = "run" /\ lastRun.io # "ok")
    => (lastRun.delivered /\ lastRun.exit = 0)

\* C17: a save whose write of the log file is cut short leaves the log file
\* either as it was or holding the previous records followed by the new one.
C17_WriteIsAtomic ==
  [][(op' = "run"
      /\ lastRun'.io \in {"write_refused", "write_truncated", "write_partial"})
       => (\/ historyFile' = historyFile
           \/ historyFile' = FileOf("list", RecordsIn(historyFile)
                                              \o <<lastSave'.item>>))]_vars

\* C18: while the log is readable, getReportHistory returns the records of
\* the log in their stored order, which is the order of the saves (oldest
\* first), and the history view, sorted newest first, leaves the log as
\* getReportHistory returned it.
C18_StorageOrderKept ==
  (op = "log" /\ lastLog.shown /\ ~lastLog.readFails)
    => LET recs == RecordsIn(historyFile) IN
       /\ lastLog.returned = IdsOf(recs)
       /\ \A i, j \in 1..Len(recs) :
            i < j => GetTime(recs[i].timestamp) < GetTime(recs[j].timestamp)
       /\ \A i, j \in 1..Len(lastLog.view) :
            i < j => \E a, b \in 1..Len(recs) :
                       /\ recs[a].report_id = lastLog.view[i]
                       /\ recs[b].report_id = lastLog.view[j]
                       /\ a > b

C18_Witness ==
  /\ op = "log" /\ lastLog.shown /\ ~lastLog.readFails
  /\ lastSave.settled = "resolved" /\ ~lastSave.warned
  /\ Len(lastLog.returned) >= 2
  /\ lastLog.returned = IdsOf(RecordsIn(historyFile))
  /\ lastLog.returned[Len(lastLog.returned)] = lastSave.id
  /\ lastLog.view[1] = lastSave.id

\* C19: when neither pattern finds an identifier in the report file (its
\* identifier line was deleted), verifyReportFile returns null with the
\* no-identifier failure, whatever the store holds.
C19_NoIdentifierFails ==
  (/\ op = "check" /\ reportFile.exists
   /\ \A i \in 1..Len(reportFile.text) :
        \A k \in 1..Len(reportFile.text[i]) :
          reportFile.text[i][k] \notin LenientLabels)
    => /\ lastCheck.kind = "null"
       /\ lastCheck.error = "No report ID found in the file"

C19_Witness ==
  /\ op = "check" /\ reportFile.exists
  /\ reportFile.edit = "drop_idline" /\ reportFile.text # reportFile.orig
  /\ IdInReport = ""
  /\ Len(RecordsIn(historyFile)) >= 1
  /\ lastCheck.kind = "null"
  /\ lastCheck.error = "No report ID found in the file"

\* C20: when the report file carries a well-formed identifier that no record
\* of the store has, verifyReportFile returns null, with the record-not-found
\* failure when the log can be searched, and never an outcome.
C20_UnknownIdFails ==
  (/\ op = "check" /\ reportFile.exists
   /\ IdInReport \in UuidShaped
   /\ \A i \in 1..Len(RecordsIn(historyFile)) :
        RecordsIn(historyFile)[i].report_id # IdInReport)
    => /\ lastCheck.kind = "null"
       /\ historyFile.kind # "notlist" => lastCheck.error = "not found in history"

C20_Witness ==
  /\ op = "check" /\ reportFile.exists
  /\ reportFile.edit = "id_unknown"
  /\ IdInReport = UnknownId
  /\ Len(RecordsIn(historyFile)) >= 1
  /\ lastCheck.kind = "null" /\ lastCheck.error = "not found in history"

\* C21: verifyReportFile is total: whatever the report file (missing,
\* unreadable, any content) and whatever the store holds (no file, zero
\* bytes, no JSON, no array, records without hash string or results,
\* malformed hash strings), it returns an outcome or null and no exception
\* leaves it.
C21_VerifyIsTotal ==
  (op \in {"check", "check_fault"}) => lastCheck.kind \in {"null", "outcome"}

C21_Witness ==
  /\ op = "check" /\ reportFile.exists
  /\ FoundOfReport.res = "found"
  /\ RecordOfReport.verification_hash = AbsentHash
  /\ lastCheck = Null("exception")

\* the data hash of a stored hash string: what follows the tag of its first part
DataHashOf(hash) == Tail(Split(hash)[1])

\* C22: the record that findReportById returns for the id of a save holds the
\* results that were saved, with the id stamped on them; they serialize to
\* the text over which the data hash was computed, and the data hash of the
\* record verifies.
C22_StoredResultsRoundTrip ==
  (op = "run" /\ lastSave.settled = "resolved" /\ FoundOfLastSave.res = "found")
    => LET rec == historyFile.recs[FoundOfLastSave.idx] IN
       /\ rec.results = Stamp(lastRun.results, lastSave.id)
       /\ DataHashOf(rec.verification_hash)
            = CreateVerificationHash(JsonStringify(rec.results), SaltsOfRun[runs][1])
       /\ VerifyContent(JsonStringify(rec.results),
                        DataHashOf(rec.verification_hash)).value

C22_Witness ==
  /\ op = "run" /\ lastSave.settled = "resolved" /\ FoundOfLastSave.res = "found"
  /\ Len(lastRun.results) = 2
  /\ lastRun.results[1].has_exif /\ lastRun.results[1].report_id = ""
  /\ lastRun.results[2].error # ""
  /\ historyFile.recs[FoundOfLastSave.idx].results[2].error = lastRun.results[2].error
  /\ historyFile.recs[FoundOfLastSave.idx].results[1].exif = <<"Image Make", "Comment">>
  /\ historyFile.recs[FoundOfLastSave.idx].results[1].report_id = lastSave.id

\* C23: after saveReport has returned an id for a non-empty result set, the
\* identifier that verifyReportFile extracts from the report rendered of
\* those results is that id.
C23_ExtractedIdIsSavedId ==
  (op = "run" /\ lastSave.settled = "resolved")
    => (reportFile.exists /\ reportFile.edit = "none" /\ IdInReport = lastSave.id)

C23_Witness ==
  /\ op = "run" /\ lastSave.settled = "resolved"
  /\ Len(lastRun.results) > 0
  /\ lastRun.viewAll
  /\ \E i \in 1..Len(reportFile.text) :
       /\ ESC \in SeqRange(reportFile.text[i])
       /\ LabelId \in SeqRange(reportFile.text[i])
  /\ IdInReport = lastSave.id
  /\ lastSave.id \in SeqRange(UUIDs)

\* C24: when saveReport returns id, every element of the caller's results
\* carries report_id = id, the record it built and appended has report_id =
\* id, and every element of the record's stored results carries report_id = id.
C24_IdStampedEverywhere ==
  (op = "run" /\ lastSave.settled = "resolved")
    => /\ Len(lastRun.after) = Len(lastRun.results)
       /\ \A i \in 1..Len(lastRun.after) : lastRun.after[i].report_id = lastSave.id
       /\ lastSave.item.report_id = lastSave.id
       /\ \A i \in 1..Len(lastSave.item.results) :
            lastSave.item.results[i].report_id = lastSave.id
       /\ ~lastSave.warned =>
            LET recs == RecordsIn(historyFile)
                rec == recs[Len(recs)]
            IN /\ Len(recs) >= 1
               /\ rec.report_id = lastSave.id
               /\ Len(rec.results) = Len(lastRun.results)
               /\ \A i \in 1..Len(rec.results) : rec.results[i].report_id = lastSave.id

C24_Witness ==
  /\ op = "run" /\ lastSave.settled = "resolved" /\ ~lastSave.warned
  /\ Len(lastRun.results) = 2
  /\ lastRun.results[2].report_id = ""
  /\ lastRun.after[2].report_id = lastSave.id
  /\ Len(RecordsIn(historyFile)) >= 2
  /\ RecordsIn(historyFile)[Len(RecordsIn(historyFile))].results[2].report_id
       = lastSave.id

\* C25: verification (with the lookup it makes) and the history view never
\* write to the store: the log file and the storage directory are the same
\* before and after, whatever the result; and an outcome of verification
\* carries the timestamp and the analyzed files of the matched record.
C25_ReadersLeaveStore ==
  [][(op' \in {"check", "check_fault", "log"})
       => /\ historyFile' = historyFile
          /\ dirExists' = dirExists
          /\ lastCheck'.kind = "outcome"
               => /\ lastCheck'.timestamp = RecordOfReport.timestamp
                  /\ lastCheck'.analyzed_files = RecordOfReport.analyzed_files]_vars

C25_Witness ==
  /\ op = "check" /\ lastCheck.kind = "outcome"
  /\ lastCheck.timestamp = RecordOfReport.timestamp
  /\ lastCheck.timestamp \in SeqRange(Times)
  /\ lastCheck.analyzed_files = RecordOfReport.analyzed_files
  /\ Len(lastCheck.analyzed_files) = 2
  /\ Len(RecordsIn(historyFile)) >= 2

\* the (file_name, file_path) pairs of the results, in their order
FilesOf(results) ==
  [i \in 1..Len(results) |->
     [file_name |-> results[i].file_name, file_path |-> results[i].file_path]]

\* C26: a run that analyzes at least one file path and meets no I/O failure
\* appends exactly one record to the log, whose analyzed files are all the
\* files of the run, the inaccessible ones included; a run in check mode, in
\* log mode or without file paths appends none.
C26_OneRecordPerRun ==
  [][/\ (op' = "run" /\ lastRun'.io = "ok")
          => LET old == RecordsIn(historyFile)
                 new == RecordsIn(historyFile')
             IN /\ Len(new) = Len(old) + 1
                /\ new[Len(new)].analyzed_files = FilesOf(lastRun'.results)
     /\ (op' \in {"check", "check_fault", "log", "nofiles"})
          => Len(RecordsIn(historyFile')) = Len(RecordsIn(historyFile))]_vars

\* the lines of the text that the label opens, escape codes aside
LinesIntroducedBy(text, label) ==
  { i \in 1..Len(text) : IntroducedBy(StripLine(text[i]), label) }

C28_SavedHashIsTaggedPair ==
  /\ lastSave.settled = "resolved"
       => /\ IsTaggedPair(lastSave.item.verification_hash)
          /\ Len(Split(lastSave.item.verification_hash)) = 2
  /\ (op = "run" /\ lastSave.settled = "resolved" /\ ~lastSave.warned)
       => RecordsIn(historyFile)[Len(RecordsIn(historyFile))].verification_hash
            = lastSave.item.verification_hash
  /\ (/\ op = "check" /\ reportFile.exists /\ lastSave.settled = "resolved"
      /\ IdInReport = lastSave.id
      /\ FoundOfReport.res = "found"
      /\ RecordOfReport.verification_hash = lastSave.item.verification_hash)
       => (lastCheck.kind = "outcome" /\ lastCheck.branch = "dual")

C28_Witness ==
  /\ op = "check" /\ reportFile.exists /\ lastSave.settled = "resolved"
  /\ IdInReport = lastSave.id
  /\ FoundOfReport.res = "found"
  /\ RecordOfReport.verification_hash = lastSave.item.verification_hash
  /\ IsTaggedPair(RecordOfReport.verification_hash)
  /\ RecordOfReport.results = NoResults
  /\ lastCheck.kind = "outcome" /\ lastCheck.branch = "dual"

\* C29: a save whose fs.readFile of the existing log file fails, or whose
\* JSON.parse of what it read fails, does not write the log file: the file
\* is the same before and after.
C29_FailedReadWritesNothing ==
  [][(/\ op' = "run"
      /\ \/ lastRun'.io = "read"
         \/ lastRun'.io = "ok" /\ historyFile.kind \in {"empty", "garbage"})
       => (historyFile' = historyFile /\ lastSave'.warned)]_vars

C29_Witness ==
  /\ op = "run" /\ lastRun.io = "read"
  /\ lastSave.settled = "resolved" /\ lastSave.warned
  /\ Len(RecordsIn(historyFile)) >= 1
  /\ \A i \in 1..Len(RecordsIn(historyFile)) :
       RecordsIn(historyFile)[i].report_id # lastSave.id

\* whether the log holds the record that the call p built
LogHasRecordOf(p) ==
  \E i \in 1..Len(RecordsIn(historyFile)) :
    RecordsIn(historyFile)[i].report_id = savers[p].item.report_id

\* C30: when two saveReport calls on one store overlap (one loads the log
\* after the other has loaded it and before the other has written it back)
\* and both complete without a warning, the log holds both new records.
C30_OverlappingSavesKeepBoth ==
  (/\ \A p \in Savers : savers[p].pc = "done"
   /\ \E p \in Savers : savers[p].overlapped)
    => \A p \in Savers : LogHasRecordOf(p)
====
